---- MODULE Spec2Model ----
(***************************************************************************)
(* Certificate service of 7lol_back: the express router of                 *)
(* routes/certificates.js over a MongoDB collection (models/Certificate.js)*)
(* and a Cloudinary artifact store, behind the JWT middleware              *)
(* middlewares/auth.js.  Every request is a process; every await of a      *)
(* handler is a step boundary, and every store call is atomic.             *)
(***************************************************************************)
EXTENDS Integers, Sequences, FiniteSets, TLC

\* ---------------------------------------------------------------- bounds
MaxDocs == 2        \* metadata records ever created (ids 1..MaxDocs)
MaxHandles == 3     \* blobs ever uploaded (handles 1..MaxHandles)
MaxClock == 1       \* times read from the clock are 0..MaxClock
MaxReqs == 3        \* requests received in one behaviour
MaxFiles == 2       \* files carried by one POST in the model
MaxT == 3           \* size of the dataset of the listing specification
MaxL == 3           \* largest page size asked for in the listing specification
TicksPerDay == 2    \* clock ticks in a calendar day
DaysPerMonth == 3   \* days in a month of the model's calendar
MonthsPerYear == 2  \* months in a year of the model's calendar
MaxDays == 8        \* calendar days spanned by the trend specification
MaxN == 2           \* size of the dataset of the trend specification

\* ------------------------------------------------------- program constants
UploadLimit == 10   \* upload.array("certificate", 10)
DefaultPage == 1    \* parseInt(req.query.page) || 1
DefaultLimit == 10  \* parseInt(req.query.limit) || 10
DailyBack == 6      \* sevenDaysAgo.setDate(today.getDate() - 6)
YearsBack == 1      \* lastYear.setFullYear(today.getFullYear() - 1)

Procs == {1, 2}
Owners == {"s1", "s2"}
NoSid == "undefined"

VARIABLES
  docs,        \* the Certificate collection: a set of documents
  blobs,       \* the Cloudinary store: the set of public ids that exist
  nextId,      \* the next ObjectId the collection hands out
  nextHandle,  \* the next public id Cloudinary hands out
  clock,       \* the latest time read from the system clock
  pc,          \* per request process: the await it is parked at
  rq,          \* per process: the request it serves
  lv,          \* per process: the handler's local variables
  resp,        \* per process: the response sent
  trace,       \* per process: the store calls its request has made, in order
  snap,        \* per process: both stores as they were when the request arrived
  overlap,     \* per process: another request was in progress during this one
  everFailed,  \* some completed request was answered 500
  started,     \* requests received so far
  scan         \* the client of the listing and trend specifications

vars == <<docs, blobs, nextId, nextHandle, clock, pc, rq, lv, resp, trace,
          snap, overlap, everFailed, started, scan>>

stores == <<docs, blobs, nextId, nextHandle>>

\* ------------------------------------------------------------ the schema
\* models/Certificate.js: studentId, certificateUrl, publicId (all required),
\* createdAt (default Date.now); id is the ObjectId.
NewCert(id, sid, url, pid, t) ==
  [id |-> id, studentId |-> sid, certificateUrl |-> url, publicId |-> pid,
   createdAt |-> t]

NoCert == NewCert(0, NoSid, 0, 0, 0)

\* mongoose's required validator of a String path: undefined and "" fail.
SchemaValid(sid, url, pid) == sid # NoSid /\ url # 0 /\ pid # 0

\* JavaScript truthiness of a public id (0 stands for undefined / "").
Truthy(x) == x # 0

\* secure_url of an uploaded asset: determined by its public id.
SecureUrl(h) == h

\* --------------------------------------------------------- the middleware
\* The Authorization header as the words between single spaces; <<>> is an
\* absent (or empty) header.
\* header.split(" ")[1]
TokenOf(header) == IF Len(header) >= 2 THEN header[2] ELSE "undefined"

\* jwt.verify(token, JWT_SECRET) returns (TRUE) or throws (FALSE).
JwtVerify(token) == token = "good"

\* auth(req, res, next): TRUE when next() is called, FALSE when 401 is sent.
AuthPass(header) ==
  IF header = <<>> THEN FALSE ELSE JwtVerify(TokenOf(header))

\* The routes that name `auth` in their middleware chain.
RouteAuth_NoDeleteGate(op) ==
  op \in {"create", "replace", "stats", "daily", "monthly", "cloudinaryTest"}

RouteAuth(op) ==
  op \in {"create", "deleteAll", "replace", "deleteOne", "stats",
          "deleteByOwner", "daily", "monthly", "cloudinaryTest"}


\* ------------------------------------------------------------- requests
\* A query parameter as it arrives: absent, a non-numeric text, or the text
\* of an integer.
Absent == [kind |-> "absent", val |-> 0]
Text == [kind |-> "text", val |-> 0]
Num(n) == [kind |-> "int", val |-> n]

Req(op, hdr, id, sid, n, file, page, limit) ==
  [op |-> op, hdr |-> hdr, id |-> id, sid |-> sid, n |-> n, file |-> file,
   page |-> page, limit |-> limit]

NoReq == Req("none", <<>>, 0, NoSid, 0, FALSE, Absent, Absent)

Ids == 1..MaxDocs

\* The requests of a behaviour.  A request that carries a credential the
\* gate accepts takes every argument; one that carries none, or a bad one,
\* takes one choice of arguments per route.
Authorized == <<"Bearer", "good">>

Rejected == {<<>>, <<"Bearer", "bad">>}

Requests ==
  {Req(op, h, 0, NoSid, 0, FALSE, Absent, Absent) :
     op \in {"deleteAll", "stats", "daily", "monthly", "cloudinaryTest", "list"},
     h \in Rejected \cup {Authorized}}
  \cup {Req("list", <<>>, 0, NoSid, 0, FALSE, Num(2), Num(1))}
  \cup {Req("create", Authorized, 0, s, n, FALSE, Absent, Absent) :
     s \in Owners, n \in 0..MaxFiles}
  \cup {Req("create", Authorized, 0, NoSid, 1, FALSE, Absent, Absent)}
  \cup {Req("search", <<>>, 0, s, 0, FALSE, Absent, Absent) :
     s \in Owners \cup {NoSid}}
  \cup {Req("download", <<>>, id, NoSid, 0, FALSE, Absent, Absent) : id \in Ids}
  \cup {Req("deleteOne", Authorized, id, NoSid, 0, FALSE, Absent, Absent) :
     id \in Ids}
  \cup {Req("replace", Authorized, id, s, 0, f, Absent, Absent) :
     id \in Ids, s \in Owners \cup {NoSid}, f \in BOOLEAN}
  \cup {Req("deleteByOwner", Authorized, 0, s, 0, FALSE, Absent, Absent) :
     s \in Owners}
  \cup {Req("create", h, 0, "s1", 1, FALSE, Absent, Absent) : h \in Rejected}
  \cup {Req("deleteOne", h, 1, NoSid, 0, FALSE, Absent, Absent) :
     h \in Rejected \cup {<<"good">>}}
  \cup {Req("replace", h, 1, "s1", 0, TRUE, Absent, Absent) : h \in Rejected}
  \cup {Req("deleteByOwner", h, 0, "s1", 0, FALSE, Absent, Absent) : h \in Rejected}

\* ------------------------------------------------------ handler plumbing
LvInit ==
  [cert |-> NoCert, mod |-> {}, i |-> 0, all |-> <<>>, created |-> <<>>,
   succ |-> <<>>, fail |-> <<>>, total |-> 0, now |-> 0]

NoResp == [status |-> 0, body |-> "none"]

Active(p) == pc[p] \notin {"idle", "done"}

Quiescent == \A p \in Procs : ~Active(p)

\* res.status(status).json(body): the request is over.
Respond(p, status, body) ==
  /\ pc' = [pc EXCEPT ![p] = "done"]
  /\ resp' = [resp EXCEPT ![p] = [status |-> status, body |-> body]]
  /\ lv' = [lv EXCEPT ![p] = LvInit]
  /\ everFailed' = (everFailed \/ status = 500)

\* the handler parks at its next await.
Goto(p, label, locals) ==
  /\ pc' = [pc EXCEPT ![p] = label]
  /\ lv' = [lv EXCEPT ![p] = locals]
  /\ UNCHANGED <<resp, everFailed>>

\* one store call of the request, appended to its history.
Log(p, call, arg, ok) ==
  trace' = [trace EXCEPT ![p] = Append(@, [call |-> call, arg |-> arg, ok |-> ok])]

\* Certificate.findById(id): the document, or null.
FindById(id) ==
  IF \E d \in docs : d.id = id THEN CHOOSE d \in docs : d.id = id ELSE NoCert

\* The synchronous prelude of each route, up to its first await: the label
\* the handler parks at, or the response it sends at once.
Park(label) == [pc |-> label, status |-> 0, body |-> "none"]
Reply(status, body) == [pc |-> "done", status |-> status, body |-> body]

EntryOf(r) ==
  CASE r.op = "list" -> Park("l_count")
    [] r.op = "create" ->
         IF r.n > UploadLimit THEN Reply(500, "Server error")
         ELSE IF r.n = 0 THEN Reply(400, "No files uploaded")
         ELSE Park("c_upload")
    [] r.op = "deleteAll" -> Park("da_find")   \* line 85: cloudinary is configured
    [] r.op = "search" ->
         IF r.sid = NoSid THEN Reply(400, "studentId is required")
         ELSE Park("s_find")
    [] r.op = "download" -> Park("dl_find")
    [] r.op = "replace" -> Park("r_find")
    [] r.op = "deleteOne" -> Park("d_find")
    [] r.op = "stats" -> Park("st_count")
    [] r.op = "deleteByOwner" -> Park("do_deleteMany")
    [] r.op = "daily" -> Park("td_aggregate")
    [] r.op = "monthly" -> Park("tm_aggregate")
    [] r.op = "cloudinaryTest" -> Park("ct_resources")

\* express dispatches the request: the route's middleware chain runs (auth
\* where the route names it), then the handler up to its first await.
Dispatch(r) ==
  IF RouteAuth(r.op) /\ ~AuthPass(r.hdr)
  THEN Reply(401, "Unauthorized")
  ELSE EntryOf(r)

\* Date.now() / new Date(): a time not before any time read earlier.
Now(t) == t \in clock..MaxClock /\ clock' = t

NoSnap == [docs |-> {}, blobs |-> {}]

\* A request arrives at process p.  What is remembered of the requests that
\* are over (request, response, history) is dropped; a request that runs
\* beside another keeps no picture of the stores as it found them.
ReceiveOf(p, R) ==
  /\ pc[p] \in {"idle", "done"}
  /\ started < MaxReqs
  /\ started' = started + 1
  /\ \E r \in R, t \in clock..MaxClock :
       LET e == Dispatch(r)
           reads == e.pc \in {"td_aggregate", "tm_aggregate"}
           over(q) == q # p /\ pc[q] = "done"
           beside == \E o \in Procs \ {p} : Active(o)
       IN
       /\ rq' = [q \in Procs |-> IF q = p THEN r ELSE IF over(q) THEN NoReq ELSE rq[q]]
       /\ pc' = [q \in Procs |-> IF q = p THEN e.pc ELSE IF over(q) THEN "idle" ELSE pc[q]]
       /\ resp' = [q \in Procs |->
                     IF q = p THEN [status |-> e.status, body |-> e.body]
                     ELSE IF over(q) THEN NoResp ELSE resp[q]]
       /\ lv' = [lv EXCEPT ![p] = [LvInit EXCEPT !.i = IF e.pc = "done" THEN 0 ELSE 1,
                                                !.now = IF reads THEN t ELSE 0]]
       /\ IF reads THEN Now(t) ELSE t = clock /\ UNCHANGED clock
       /\ everFailed' = (everFailed \/ e.status = 500)
       /\ trace' = [q \in Procs |-> IF q = p \/ over(q) THEN <<>> ELSE trace[q]]
       /\ snap' = [q \in Procs |->
                     IF beside \/ over(q) THEN NoSnap
                     ELSE IF q = p THEN [docs |-> docs, blobs |-> blobs]
                     ELSE snap[q]]
       /\ overlap' = [q \in Procs |->
                        IF q = p THEN beside
                        ELSE IF Active(q) THEN TRUE ELSE FALSE]
  /\ UNCHANGED <<stores, scan>>

Receive(p) == ReceiveOf(p, Requests)

\* ------------------------------------------------ the two stores' calls
\* uploadBuffer(buffer) resolved: Cloudinary holds one more asset, under a
\* public id it has never used.
UploadResult == [secure_url |-> SecureUrl(nextHandle), public_id |-> nextHandle]

UploadOk ==
  /\ nextHandle <= MaxHandles
  /\ blobs' = blobs \cup {nextHandle}
  /\ nextHandle' = nextHandle + 1

\* cloudinary.uploader.destroy(publicId) resolved: the asset is gone (an
\* unknown public id resolves too, with result "not found").
DestroyOk(h) == blobs' = blobs \ {h}

\* the documents of a query as an array, in the collection's natural order.
RECURSIVE NaturalOrder(_)
NaturalOrder(S) ==
  IF S = {} THEN <<>>
  ELSE LET d == CHOOSE x \in S : \A y \in S : x.id <= y.id
       IN <<d>> \o NaturalOrder(S \ {d})

\* ------------------------------------------------------- POST / (create)
\* lines 72-75: the catch logs and answers 500 with the error's message.
\* It undoes nothing: the records of the files before the failing one stay.
CatchKeeps_RollBack(D, created) == D \ {created[k] : k \in 1..Len(created)}

CatchKeeps(D, created) == D

CreateError_PartialList(created) == [status |-> 200, body |-> created]

CreateError(created) == [status |-> 500, body |-> "Server error"]

CreateCatch(p) ==
  /\ docs' = CatchKeeps(docs, lv[p].created)
  /\ Respond(p, CreateError(lv[p].created).status, CreateError(lv[p].created).body)

\* line 62: await uploadBuffer(file.buffer) for file number lv.i.
CreateUpload(p) ==
  /\ pc[p] = "c_upload"
  /\ \E ok \in BOOLEAN :
       /\ Log(p, "upload", IF ok THEN nextHandle ELSE 0, ok)
       /\ IF ok
          THEN /\ UploadOk
               /\ Goto(p, "c_create",
                       [lv[p] EXCEPT !.cert = NewCert(0, rq[p].sid,
                          UploadResult.secure_url, UploadResult.public_id, 0)])
               /\ UNCHANGED docs
          ELSE /\ CreateCatch(p)
               /\ UNCHANGED <<blobs, nextHandle>>
  /\ UNCHANGED <<nextId, clock, rq, snap, overlap, started, scan>>

\* the for-of of line 61 after file i of n: TRUE when another file follows.
CreateMore(i, n) == i < n

\* line 63: await Certificate.create({studentId, certificateUrl, publicId});
\* createdAt defaults to Date.now.
CreateInsert(p) ==
  /\ pc[p] = "c_create"
  /\ \E ok \in BOOLEAN, t \in clock..MaxClock :
       LET c == lv[p].cert
           valid == SchemaValid(c.studentId, c.certificateUrl, c.publicId)
           doc == NewCert(nextId, c.studentId, c.certificateUrl, c.publicId, t)
           made == Append(lv[p].created, doc)
       IN /\ Log(p, "create", IF ok /\ valid THEN nextId ELSE 0, ok /\ valid)
          /\ IF ok /\ valid
             THEN /\ nextId <= MaxDocs
                  /\ Now(t)
                  /\ docs' = docs \cup {doc}
                  /\ nextId' = nextId + 1
                  /\ IF CreateMore(lv[p].i, rq[p].n)
                     THEN Goto(p, "c_upload",
                               [lv[p] EXCEPT !.cert = NoCert, !.created = made,
                                             !.i = @ + 1])
                     ELSE Respond(p, 200, made)
             ELSE /\ t = clock
                  /\ CreateCatch(p)
                  /\ UNCHANGED <<nextId, clock>>
  /\ UNCHANGED <<blobs, nextHandle, rq, snap, overlap, started, scan>>

\* ---------------------------------------------------- DELETE / (deleteAll)
\* the index of the next certificate at or after i with a truthy publicId
\* (line 99), Len(all) + 1 when there is none.
RECURSIVE NextWithHandle(_, _)
NextWithHandle(all, i) ==
  IF i > Len(all) THEN i
  ELSE IF Truthy(all[i].publicId) THEN i
  ELSE NextWithHandle(all, i + 1)

DeleteAllLoop(p, locals, from) ==
  LET j == NextWithHandle(locals.all, from)
  IN Goto(p, IF j > Len(locals.all) THEN "da_deleteMany" ELSE "da_destroy",
          [locals EXCEPT !.i = j])

\* line 90: await Certificate.find({}).
DeleteAllFind(p) ==
  /\ pc[p] = "da_find"
  /\ \E ok \in BOOLEAN :
       /\ Log(p, "find", 0, ok)
       /\ IF ok
          THEN DeleteAllLoop(p, [lv[p] EXCEPT !.all = NaturalOrder(docs)], 1)
          ELSE Respond(p, 500, "Bulk deletion failed")
  /\ UNCHANGED <<stores, clock, rq, snap, overlap, started, scan>>

\* lines 100-109: await cloudinary.uploader.destroy(cert.publicId) inside
\* its own try/catch.  TRUE: the loop goes on to the next certificate.
DeleteAllGoesOn_Abort(ok) == ok

DeleteAllGoesOn(ok) == TRUE

DeleteAllDestroy(p) ==
  /\ pc[p] = "da_destroy"
  /\ \E ok \in BOOLEAN :
       LET h == lv[p].all[lv[p].i].publicId
           locals == IF ok THEN [lv[p] EXCEPT !.succ = Append(@, h)]
                     ELSE [lv[p] EXCEPT !.fail = Append(@, h)]
       IN /\ Log(p, "destroy", h, ok)
          /\ IF ok THEN DestroyOk(h) ELSE UNCHANGED blobs
          /\ IF DeleteAllGoesOn(ok)
             THEN DeleteAllLoop(p, locals, lv[p].i + 1)
             ELSE Respond(p, 500, "Bulk deletion failed")
  /\ UNCHANGED <<docs, nextId, nextHandle, clock, rq, snap, overlap, started, scan>>

\* lines 93-96, 116-127: the report.
DeleteAllReport_CountsSuccesses(locals, deletedCount) ==
  [attempted |-> Len(locals.succ), successful |-> Len(locals.succ),
   failed |-> Len(locals.fail), errors |-> locals.fail,
   deletedCount |-> deletedCount]

DeleteAllReport(locals, deletedCount) ==
  [attempted |-> Len(locals.all), successful |-> Len(locals.succ),
   failed |-> Len(locals.fail), errors |-> locals.fail,
   deletedCount |-> deletedCount]

\* line 114: await Certificate.deleteMany({}).
DeleteAllDeleteMany(p) ==
  /\ pc[p] = "da_deleteMany"
  /\ \E ok \in BOOLEAN :
       /\ Log(p, "deleteMany", 0, ok)
       /\ IF ok
          THEN /\ docs' = {}
               /\ Respond(p, 200, DeleteAllReport(lv[p], Cardinality(docs)))
          ELSE /\ Respond(p, 500, "Bulk deletion failed")
               /\ UNCHANGED docs
  /\ UNCHANGED <<blobs, nextId, nextHandle, clock, rq, snap, overlap, started, scan>>


\* ------------------------------------------------ DELETE /:id (deleteOne)
\* line 211: await Certificate.findById(req.params.id).
DeleteOneFind(p) ==
  /\ pc[p] = "d_find"
  /\ \E ok \in BOOLEAN :
       LET c == FindById(rq[p].id)
       IN /\ Log(p, "findById", rq[p].id, ok)
          /\ IF ~ok THEN Respond(p, 500, "Deletion failed - rolled back")
             ELSE IF c = NoCert THEN Respond(p, 404, "Certificate not found")
             ELSE Goto(p, IF Truthy(c.publicId) THEN "d_destroy" ELSE "d_delete",
                       [lv[p] EXCEPT !.cert = c])
  /\ UNCHANGED <<stores, clock, rq, snap, overlap, started, scan>>

\* lines 217-221: the destroy is awaited outside any inner try, so the
\* handler reaches Certificate.deleteOne only when it resolved.
DeleteOneProceeds_Swallow(ok) == TRUE

DeleteOneProceeds(ok) == ok

\* line 218: await cloudinary.uploader.destroy(cert.publicId).
DeleteOneDestroy(p) ==
  /\ pc[p] = "d_destroy"
  /\ \E ok \in BOOLEAN :
       /\ Log(p, "destroy", lv[p].cert.publicId, ok)
       /\ IF ok THEN DestroyOk(lv[p].cert.publicId) ELSE UNCHANGED blobs
       /\ IF DeleteOneProceeds(ok)
          THEN Goto(p, "d_delete", lv[p])
          ELSE Respond(p, 500, "Deletion failed - rolled back")
  /\ UNCHANGED <<docs, nextId, nextHandle, clock, rq, snap, overlap, started, scan>>

\* line 221: await Certificate.deleteOne({ _id: req.params.id }).
DeleteOneDelete(p) ==
  /\ pc[p] = "d_delete"
  /\ \E ok \in BOOLEAN :
       /\ Log(p, "deleteOne", rq[p].id, ok)
       /\ IF ok
          THEN /\ docs' = {d \in docs : d.id # rq[p].id}
               /\ Respond(p, 200, "Certificate completely deleted from both systems")
          ELSE /\ UNCHANGED docs
               /\ Respond(p, 500, "Deletion failed - rolled back")
  /\ UNCHANGED <<blobs, nextId, nextHandle, clock, rq, snap, overlap, started, scan>>

\* ------------------------------- DELETE /student/:studentId (deleteByOwner)
\* the filter { studentId } of line 252.
OwnerFilter_All(d, sid) == TRUE

OwnerFilter(d, sid) == d.studentId = sid

\* line 252: await Certificate.deleteMany({ studentId }).
DeleteByOwnerDeleteMany(p) ==
  /\ pc[p] = "do_deleteMany"
  /\ \E ok \in BOOLEAN :
       LET hit == {d \in docs : OwnerFilter(d, rq[p].sid)}
       IN /\ Log(p, "deleteMany", 0, ok)
          /\ IF ok
             THEN /\ docs' = docs \ hit
                  /\ Respond(p, 200, [deletedCertificates |-> Cardinality(hit)])
             ELSE /\ UNCHANGED docs
                  /\ Respond(p, 500, "Server error")
  /\ UNCHANGED <<blobs, nextId, nextHandle, clock, rq, snap, overlap, started, scan>>

\* ---------------------------------------------------- PUT /:id (replace)
\* lines 199-202: the catch of the handler answers 500.
ReplaceError_Swallowed == [status |-> 200, body |-> "Server error"]

ReplaceError == [status |-> 500, body |-> "Server error"]

ReplaceCatch(p) == Respond(p, ReplaceError.status, ReplaceError.body)

\* lines 193-195: cert.studentId = req.body.studentId when it is truthy;
\* mongoose marks the path modified when the value changes.
WithStudentId(locals, sid) ==
  IF sid # NoSid /\ sid # locals.cert.studentId
  THEN [locals EXCEPT !.cert.studentId = sid, !.mod = @ \cup {"studentId"}]
  ELSE locals

\* lines 188-189: the document takes the uploaded asset's url and public id.
WithAsset_KeepsHandle(locals, res) ==
  [locals EXCEPT !.cert.certificateUrl = res.secure_url,
                 !.mod = @ \cup {"certificateUrl"}]

WithAsset(locals, res) ==
  [locals EXCEPT !.cert.certificateUrl = res.secure_url,
                 !.cert.publicId = res.public_id,
                 !.mod = @ \cup {"certificateUrl", "publicId"}]

\* line 180: await Certificate.findById(req.params.id).
ReplaceFind(p) ==
  /\ pc[p] = "r_find"
  /\ \E ok \in BOOLEAN :
       LET c == FindById(rq[p].id)
       IN /\ Log(p, "findById", rq[p].id, ok)
          /\ IF ~ok THEN ReplaceCatch(p)
             ELSE IF c = NoCert THEN Respond(p, 404, "Certificate not found")
             ELSE IF rq[p].file
                  THEN Goto(p, "r_destroy", [lv[p] EXCEPT !.cert = c])
                  ELSE Goto(p, "r_save",
                            WithStudentId([lv[p] EXCEPT !.cert = c], rq[p].sid))
  /\ UNCHANGED <<stores, clock, rq, snap, overlap, started, scan>>

\* lines 186-187: the destroy is awaited with no try of its own, so the
\* upload is reached only when it resolved.
ReplaceProceeds_Swallow(ok) == TRUE

ReplaceProceeds(ok) == ok

\* line 186: await cloudinary.uploader.destroy(cert.publicId).
ReplaceDestroy(p) ==
  /\ pc[p] = "r_destroy"
  /\ \E ok \in BOOLEAN :
       /\ Log(p, "destroy", lv[p].cert.publicId, ok)
       /\ IF ok THEN DestroyOk(lv[p].cert.publicId) ELSE UNCHANGED blobs
       /\ IF ReplaceProceeds(ok)
          THEN Goto(p, "r_upload", lv[p])
          ELSE ReplaceCatch(p)
  /\ UNCHANGED <<docs, nextId, nextHandle, clock, rq, snap, overlap, started, scan>>

\* line 187: await uploadBuffer(req.file.buffer).
ReplaceUpload(p) ==
  /\ pc[p] = "r_upload"
  /\ \E ok \in BOOLEAN :
       /\ Log(p, "upload", IF ok THEN nextHandle ELSE 0, ok)
       /\ IF ok
          THEN /\ UploadOk
               /\ Goto(p, "r_save",
                       WithStudentId(WithAsset(lv[p], UploadResult), rq[p].sid))
          ELSE /\ UNCHANGED <<blobs, nextHandle>>
               /\ ReplaceCatch(p)
  /\ UNCHANGED <<docs, nextId, clock, rq, snap, overlap, started, scan>>

\* document.save(): the update mongoose sends sets the modified paths only.
SaveDelta(stored, cert, mod) ==
  [f \in DOMAIN stored |-> IF f \in mod THEN cert[f] ELSE stored[f]]

\* line 197: await cert.save().  Nothing modified: no update is sent.  The
\* document gone meanwhile: the update matches nothing, and save either
\* throws DocumentNotFoundError or resolves, by mongoose version.
ReplaceSave(p) ==
  /\ pc[p] = "r_save"
  /\ LET c == lv[p].cert
         m == lv[p].mod
         stored == FindById(c.id)
     IN IF m = {}
        THEN /\ Log(p, "save", 0, TRUE)
             /\ UNCHANGED docs
             /\ Respond(p, 200, c)
        ELSE \E ok \in BOOLEAN :
               /\ Log(p, "save", Cardinality(m), ok)
               /\ IF ~ok
                  THEN UNCHANGED docs /\ ReplaceCatch(p)
                  ELSE IF stored = NoCert
                  THEN /\ UNCHANGED docs
                       /\ \E throws \in BOOLEAN :
                            IF throws THEN ReplaceCatch(p)
                            ELSE Respond(p, 200, c)
                  ELSE /\ docs' = (docs \ {stored}) \cup {SaveDelta(stored, c, m)}
                       /\ Respond(p, 200, c)
  /\ UNCHANGED <<blobs, nextId, nextHandle, clock, rq, snap, overlap, started, scan>>


\* ----------------------------------------------------------- GET / (list)
\* parseInt(raw) || dflt: NaN (absent, non-numeric) and 0 are falsy.
ParseOr(raw, dflt) ==
  IF raw.kind = "int" /\ raw.val # 0 THEN raw.val ELSE dflt

Abs(n) == IF n < 0 THEN -n ELSE n

\* Math.ceil(a / b) for a >= 0 and b # 0.
CeilDiv(a, b) ==
  IF b > 0 THEN (a + b - 1) \div b ELSE -(a \div (-b))

\* Math.ceil(total / limit), line 30.
TotalPages(total, limit) == CeilDiv(total, limit)

\* line 18.
Skip(page, limit) == (page - 1) * limit

\* the arrays of all of S in which createdAt never increases.  The sort key
\* of line 25 is createdAt alone: documents that share a createdAt come in
\* whatever order the server's sort of this one query leaves them.
RECURSIVE Arrangements(_)
Arrangements(S) ==
  IF S = {} THEN {<<>>}
  ELSE UNION {{<<d>> \o rest : rest \in Arrangements(S \ {d})} : d \in S}

SortedByCreatedAtDesc(S) ==
  {a \in Arrangements(S) :
     \A i \in 1..(Len(a) - 1) : a[i].createdAt >= a[i + 1].createdAt}

\* .skip(skip).limit(limit) of a sorted cursor; a negative limit asks for
\* that many documents in a single batch.
SkipLimit(a, skip, limit) ==
  LET hi == IF skip + Abs(limit) < Len(a) THEN skip + Abs(limit) ELSE Len(a)
  IN SubSeq(a, skip + 1, hi)

\* lines 33-43: the response body.
ListBody(certs, total, page, limit) ==
  [data |-> certs, total |-> total, totalPages |-> TotalPages(total, limit),
   currentPage |-> page, itemsPerPage |-> limit,
   hasNextPage |-> page < TotalPages(total, limit),
   hasPreviousPage |-> page > 1]

\* lines 14-47 after the count: the find of one sort order `a`, and the
\* response.  The server rejects a negative skip; the catch answers 500.
ListResponse(total, a, rawPage, rawLimit) ==
  LET page == ParseOr(rawPage, DefaultPage)
      limit == ParseOr(rawLimit, DefaultLimit)
      skip == Skip(page, limit)
  IN IF skip < 0 THEN [status |-> 500, body |-> "Server error"]
     ELSE [status |-> 200,
           body |-> ListBody(SkipLimit(a, skip, limit), total, page, limit)]

\* line 21: await Certificate.countDocuments().
ListCount(p) ==
  /\ pc[p] = "l_count"
  /\ \E ok \in BOOLEAN :
       /\ Log(p, "countDocuments", 0, ok)
       /\ IF ok THEN Goto(p, "l_find", [lv[p] EXCEPT !.total = Cardinality(docs)])
          ELSE Respond(p, 500, "Server error")
  /\ UNCHANGED <<stores, clock, rq, snap, overlap, started, scan>>

\* lines 24-27: await Certificate.find().sort(...).skip(skip).limit(limit).
ListFind(p) ==
  /\ pc[p] = "l_find"
  /\ \E ok \in BOOLEAN, a \in SortedByCreatedAtDesc(docs) :
       LET r == ListResponse(lv[p].total, a, rq[p].page, rq[p].limit)
       IN /\ Log(p, "find", 0, ok /\ r.status = 200)
          /\ IF ok THEN Respond(p, r.status, r.body)
             ELSE Respond(p, 500, "Server error")
  /\ UNCHANGED <<stores, clock, rq, snap, overlap, started, scan>>

\* ------------------------------------------------- GET /search, /download
\* the filter { studentId } of line 149.
SearchFilter_Others(d, sid) == d.studentId # sid

SearchFilter(d, sid) == d.studentId = sid

\* line 149: await Certificate.find({ studentId }).
SearchFind(p) ==
  /\ pc[p] = "s_find"
  /\ \E ok \in BOOLEAN :
       /\ Log(p, "find", 0, ok)
       /\ IF ok
          THEN Respond(p, 200,
                 NaturalOrder({d \in docs : SearchFilter(d, rq[p].sid)}))
          ELSE Respond(p, 500, "Server error")
  /\ UNCHANGED <<stores, clock, rq, snap, overlap, started, scan>>

\* line 163: await Certificate.findById(req.params.id); 302 to the url.
DownloadFind(p) ==
  /\ pc[p] = "dl_find"
  /\ \E ok \in BOOLEAN :
       LET c == FindById(rq[p].id)
       IN /\ Log(p, "findById", rq[p].id, ok)
          /\ IF ~ok THEN Respond(p, 500, "Server error")
             ELSE IF c = NoCert THEN Respond(p, 404, "Certificate not found")
             ELSE Respond(p, 302, c.certificateUrl)
  /\ UNCHANGED <<stores, clock, rq, snap, overlap, started, scan>>

\* ------------------------------------------------------------ GET /stats
\* line 239: await Certificate.countDocuments().
StatsCount(p) ==
  /\ pc[p] = "st_count"
  /\ \E ok \in BOOLEAN :
       /\ Log(p, "countDocuments", 0, ok)
       /\ IF ok THEN Goto(p, "st_distinct", [lv[p] EXCEPT !.total = Cardinality(docs)])
          ELSE Respond(p, 500, "Server error")
  /\ UNCHANGED <<stores, clock, rq, snap, overlap, started, scan>>

\* line 240: (await Certificate.distinct("studentId")).length.
StatsDistinct(p) ==
  /\ pc[p] = "st_distinct"
  /\ \E ok \in BOOLEAN :
       /\ Log(p, "distinct", 0, ok)
       /\ IF ok
          THEN Respond(p, 200,
                 [totalCerts |-> lv[p].total,
                  uniqueStudents |-> Cardinality({d.studentId : d \in docs})])
          ELSE Respond(p, 500, "Server error")
  /\ UNCHANGED <<stores, clock, rq, snap, overlap, started, scan>>


\* ---------------------------------------------------------- GET /trends/*
\* The calendar: a timestamp counts ticks; days, months and years are
\* uniform.
DayNo(t) == t \div TicksPerDay
MonthNo(t) == DayNo(t) \div DaysPerMonth
YearOf(t) == MonthNo(t) \div MonthsPerYear
MonthOf(t) == (MonthNo(t) % MonthsPerYear) + 1
DayOfMonth(t) == (DayNo(t) % DaysPerMonth) + 1

RECURSIVE Ascending(_)
Ascending(S) ==
  IF S = {} THEN <<>>
  ELSE LET m == CHOOSE x \in S : \A y \in S : x <= y
       IN <<m>> \o Ascending(S \ {m})

\* lines 266-268: the same time of day, DailyBack days before now.
SevenDaysAgo(now) == now - DailyBack * TicksPerDay

\* lines 271-297: $match, $group by (year, month, day), $sort, $project.
DailyTrend_AllDays(D, now) ==
  LET hit == {d \in D : d.createdAt >= SevenDaysAgo(now)}
  IN [k \in 1..(DailyBack + 1) |->
        [date |-> DayNo(now) - DailyBack - 1 + k,
         count |-> Cardinality({d \in hit :
                     DayNo(d.createdAt) = DayNo(now) - DailyBack - 1 + k})]]

DailyTrend(D, now) ==
  LET hit == {d \in D : d.createdAt >= SevenDaysAgo(now)}
      days == Ascending({DayNo(d.createdAt) : d \in hit})
  IN [k \in 1..Len(days) |->
        [date |-> days[k],
         count |-> Cardinality({d \in hit : DayNo(d.createdAt) = days[k]})]]

\* lines 308-310: the same date and time, YearsBack years before now.
LastYear(now) == now - YearsBack * MonthsPerYear * DaysPerMonth * TicksPerDay

\* lines 313-338: $match, $group by (year, month), $sort, $project; the
\* label is month "-" year.
MonthlyTrend(D, now) ==
  LET hit == {d \in D : d.createdAt >= LastYear(now)}
      months == Ascending({MonthNo(d.createdAt) : d \in hit})
  IN [k \in 1..Len(months) |->
        [label |-> <<MonthOf(months[k] * DaysPerMonth * TicksPerDay),
                     YearOf(months[k] * DaysPerMonth * TicksPerDay)>>,
         count |-> Cardinality({d \in hit : MonthNo(d.createdAt) = months[k]})]]

\* line 271: await Certificate.aggregate([...]).
DailyAggregate(p) ==
  /\ pc[p] = "td_aggregate"
  /\ \E ok \in BOOLEAN :
       /\ Log(p, "aggregate", 0, ok)
       /\ IF ok THEN Respond(p, 200, DailyTrend(docs, lv[p].now))
          ELSE Respond(p, 500, "Server error")
  /\ UNCHANGED <<stores, clock, rq, snap, overlap, started, scan>>

\* line 313: await Certificate.aggregate([...]).
MonthlyAggregate(p) ==
  /\ pc[p] = "tm_aggregate"
  /\ \E ok \in BOOLEAN :
       /\ Log(p, "aggregate", 0, ok)
       /\ IF ok THEN Respond(p, 200, MonthlyTrend(docs, lv[p].now))
          ELSE Respond(p, 500, "Server error")
  /\ UNCHANGED <<stores, clock, rq, snap, overlap, started, scan>>

\* line 357: await cloudinary.api.resources({ max_results: 1 }), a read
\* (line 350: cloudinary is configured).
CloudinaryTestResources(p) ==
  /\ pc[p] = "ct_resources"
  /\ \E ok \in BOOLEAN :
       /\ Log(p, "resources", 0, ok)
       /\ IF ok THEN Respond(p, 200, "Cloudinary working properly")
          ELSE Respond(p, 500, "Cloudinary API test failed")
  /\ UNCHANGED <<stores, clock, rq, snap, overlap, started, scan>>

\* ------------------------------------------------------ the specification
NoScan == [L |-> 0, next |-> 0, acc |-> <<>>, finished |-> FALSE,
           asked |-> [page |-> Absent, limit |-> Absent], last |-> NoResp]

Init ==
  /\ docs = {}
  /\ blobs = {}
  /\ nextId = 1
  /\ nextHandle = 1
  /\ clock = 0
  /\ pc = [p \in Procs |-> "idle"]
  /\ rq = [p \in Procs |-> NoReq]
  /\ lv = [p \in Procs |-> LvInit]
  /\ resp = [p \in Procs |-> NoResp]
  /\ trace = [p \in Procs |-> <<>>]
  /\ snap = [p \in Procs |-> NoSnap]
  /\ overlap = [p \in Procs |-> FALSE]
  /\ everFailed = FALSE
  /\ started = 0
  /\ scan = NoScan

Next ==
  \/ \E p \in Procs : Receive(p)
  \/ \E p \in Procs : CreateUpload(p)
  \/ \E p \in Procs : CreateInsert(p)
  \/ \E p \in Procs : DeleteAllFind(p)
  \/ \E p \in Procs : DeleteAllDestroy(p)
  \/ \E p \in Procs : DeleteAllDeleteMany(p)
  \/ \E p \in Procs : DeleteOneFind(p)
  \/ \E p \in Procs : DeleteOneDestroy(p)
  \/ \E p \in Procs : DeleteOneDelete(p)
  \/ \E p \in Procs : DeleteByOwnerDeleteMany(p)
  \/ \E p \in Procs : ReplaceFind(p)
  \/ \E p \in Procs : ReplaceDestroy(p)
  \/ \E p \in Procs : ReplaceUpload(p)
  \/ \E p \in Procs : ReplaceSave(p)
  \/ \E p \in Procs : ListCount(p)
  \/ \E p \in Procs : ListFind(p)
  \/ \E p \in Procs : SearchFind(p)
  \/ \E p \in Procs : DownloadFind(p)
  \/ \E p \in Procs : StatsCount(p)
  \/ \E p \in Procs : StatsDistinct(p)
  \/ \E p \in Procs : DailyAggregate(p)
  \/ \E p \in Procs : MonthlyAggregate(p)
  \/ \E p \in Procs : CloudinaryTestResources(p)

Spec == Init /\ [][Next]_vars


\* ------------------------------------------------- the listing specification
\* GET / over a collection that does not change: a client asks for single
\* pages with any query parameters, or walks the pages of one page size from
\* page 1 while hasNextPage is true, appending each page's data.
Dataset(T, ts) == {NewCert(i, "s1", SecureUrl(i), i, ts[i]) : i \in 1..T}

InitList ==
  /\ \E T \in 0..MaxT : \E ts \in [1..T -> 0..MaxClock] :
       /\ docs = Dataset(T, ts)
       /\ blobs = 1..T
       /\ nextId = T + 1
       /\ nextHandle = T + 1
  /\ clock = MaxClock
  /\ pc = [p \in Procs |-> "idle"]
  /\ rq = [p \in Procs |-> NoReq]
  /\ lv = [p \in Procs |-> LvInit]
  /\ resp = [p \in Procs |-> NoResp]
  /\ trace = [p \in Procs |-> <<>>]
  /\ snap = [p \in Procs |-> NoSnap]
  /\ overlap = [p \in Procs |-> FALSE]
  /\ everFailed = FALSE
  /\ started = 0
  /\ scan = NoScan

RawParams(hi) == {Absent, Text} \cup {Num(n) : n \in (-1)..hi}

\* one GET /?page=&limit= with the collection as it is.
ListProbe ==
  /\ scan.L = 0
  /\ \E pg \in RawParams(MaxT + 1), lm \in RawParams(MaxL),
        a \in SortedByCreatedAtDesc(docs) :
       scan' = [NoScan EXCEPT !.asked = [page |-> pg, limit |-> lm],
                              !.last = ListResponse(Cardinality(docs), a, pg, lm)]
  /\ UNCHANGED <<stores, clock, pc, rq, lv, resp, trace, snap, overlap,
                 everFailed, started>>

\* the client settles on a page size and starts at page 1.
ListWalkStart ==
  /\ scan.L = 0
  /\ \E L \in 1..MaxL : scan' = [NoScan EXCEPT !.L = L, !.next = 1]
  /\ UNCHANGED <<stores, clock, pc, rq, lv, resp, trace, snap, overlap,
                 everFailed, started>>

\* GET /?page=next&limit=L; the walk ends at the page without a next one.
ListWalkPage ==
  /\ scan.L > 0
  /\ ~scan.finished
  /\ \E a \in SortedByCreatedAtDesc(docs) :
       LET r == ListResponse(Cardinality(docs), a, Num(scan.next), Num(scan.L))
       IN scan' = [scan EXCEPT !.acc = @ \o r.body.data,
                               !.asked = [page |-> Num(scan.next), limit |-> Num(scan.L)],
                               !.last = r,
                               !.next = @ + 1,
                               !.finished = ~r.body.hasNextPage]
  /\ UNCHANGED <<stores, clock, pc, rq, lv, resp, trace, snap, overlap,
                 everFailed, started>>

NextList == ListProbe \/ ListWalkStart \/ ListWalkPage

SpecList == InitList /\ [][NextList]_vars


\* --------------------------------------------------- the trend specification
\* GET /trends/daily and GET /trends/monthly over a collection that does not
\* change: records created at times that never decrease with their ids, none
\* after the time the handler reads from the clock.
Times == 0..(MaxDays * TicksPerDay - 1)

NoTrend == [op |-> "none", now |-> 0, body |-> <<>>]

InitTrend ==
  /\ \E T \in 0..MaxN : \E ts \in [1..T -> Times] :
       /\ \A i \in 1..(T - 1) : ts[i] <= ts[i + 1]
       /\ docs = Dataset(T, ts)
       /\ blobs = 1..T
       /\ nextId = T + 1
       /\ nextHandle = T + 1
       /\ clock \in Times
       /\ \A i \in 1..T : ts[i] <= clock
  /\ pc = [p \in Procs |-> "idle"]
  /\ rq = [p \in Procs |-> NoReq]
  /\ lv = [p \in Procs |-> LvInit]
  /\ resp = [p \in Procs |-> NoResp]
  /\ trace = [p \in Procs |-> <<>>]
  /\ snap = [p \in Procs |-> NoSnap]
  /\ overlap = [p \in Procs |-> FALSE]
  /\ everFailed = FALSE
  /\ started = 0
  /\ scan = NoTrend

\* lines 266-299: today is read, the aggregate resolves, res.json(data).
TrendDaily ==
  /\ scan' = [op |-> "daily", now |-> clock, body |-> DailyTrend(docs, clock)]
  /\ UNCHANGED <<stores, clock, pc, rq, lv, resp, trace, snap, overlap,
                 everFailed, started>>

\* lines 308-340: today is read, the aggregate resolves, res.json(data).
TrendMonthly ==
  /\ scan' = [op |-> "monthly", now |-> clock, body |-> MonthlyTrend(docs, clock)]
  /\ UNCHANGED <<stores, clock, pc, rq, lv, resp, trace, snap, overlap,
                 everFailed, started>>

NextTrend == TrendDaily \/ TrendMonthly

SpecTrend == InitTrend /\ [][NextTrend]_vars


\* ------------------------------------------- the same-record specification
\* DELETE /:id and PUT /:id, from authorized callers, over a collection that
\* already holds one or two certificates with their blobs.
RaceRequests ==
  {r \in Requests : r.op \in {"deleteOne", "replace"} /\ r.hdr = Authorized}

Stored(T) ==
  {NewCert(i, IF i = 1 THEN "s1" ELSE "s2", SecureUrl(i), i, 0) : i \in 1..T}

InitRace ==
  /\ \E T \in 1..MaxDocs :
       /\ docs = Stored(T)
       /\ blobs = 1..T
       /\ nextId = T + 1
       /\ nextHandle = T + 1
  /\ clock = 0
  /\ pc = [p \in Procs |-> "idle"]
  /\ rq = [p \in Procs |-> NoReq]
  /\ lv = [p \in Procs |-> LvInit]
  /\ resp = [p \in Procs |-> NoResp]
  /\ trace = [p \in Procs |-> <<>>]
  /\ snap = [p \in Procs |-> NoSnap]
  /\ overlap = [p \in Procs |-> FALSE]
  /\ everFailed = FALSE
  /\ started = 0
  /\ scan = NoScan

RaceReceive(p) == ReceiveOf(p, RaceRequests)

NextRace ==
  \/ \E p \in Procs : RaceReceive(p)
  \/ \E p \in Procs : DeleteOneFind(p)
  \/ \E p \in Procs : DeleteOneDestroy(p)
  \/ \E p \in Procs : DeleteOneDelete(p)
  \/ \E p \in Procs : ReplaceFind(p)
  \/ \E p \in Procs : ReplaceDestroy(p)
  \/ \E p \in Procs : ReplaceUpload(p)
  \/ \E p \in Procs : ReplaceSave(p)

SpecRace == InitRace /\ [][NextRace]_vars


\* ================================================================ properties
\* What the properties read of a request's history.
Finished(p, op) == pc[p] = "done" /\ rq[p].op = op

Solo(p) == ~overlap[p]

Calls(p, call) == {i \in 1..Len(trace[p]) : trace[p][i].call = call}

CallsOk(p, call) == {i \in Calls(p, call) : trace[p][i].ok}

ArgsOk(p, call) == {trace[p][i].arg : i \in CallsOk(p, call)}

ArgsFailed(p, call) == {trace[p][i].arg : i \in Calls(p, call) \ CallsOk(p, call)}

FailedLast(p) == Len(trace[p]) > 0 /\ ~trace[p][Len(trace[p])].ok

HasId(D, id) == \E d \in D : d.id = id

Removed(p) == {d \in snap[p].docs : ~HasId(docs, d.id)}

Dangling == {d \in docs : d.publicId \notin blobs}

\* C1: a deleteOne of an existing record whose blob exists, run alone: if it
\* answers 500 the record and its blob are both still there, and if it
\* answers 200 both are gone.
C1_DeleteOneAllOrNothing ==
  \A p \in Procs :
    (Finished(p, "deleteOne") /\ Solo(p)) =>
      \A d \in snap[p].docs :
        (d.id = rq[p].id /\ d.publicId \in snap[p].blobs) =>
          /\ (resp[p].status = 500) => (d \in docs /\ d.publicId \in blobs)
          /\ (resp[p].status = 200) => (~HasId(docs, d.id) /\ d.publicId \notin blobs)

\* C2 (invariant I1): when no request is in progress and some record names a
\* public id that the artifact store does not hold, some completed request
\* was answered with a failure.
C2_DanglingOnlyAfterFailure ==
  (Quiescent /\ Dangling # {}) => everFailed

C2_Witness == Quiescent /\ Dangling # {} /\ everFailed /\ started >= 2

\* C3: a create run alone whose upload of file k fails leaves exactly k-1 new
\* records, removes none, and each new record names a blob that exists.
C3_CreatePartialProgress ==
  \A p \in Procs :
    (Finished(p, "create") /\ Solo(p) /\ FailedLast(p)
       /\ trace[p][Len(trace[p])].call = "upload") =>
      LET k == Cardinality(Calls(p, "upload"))
          new == docs \ snap[p].docs
      IN /\ snap[p].docs \subseteq docs
         /\ Cardinality(new) = k - 1
         /\ Cardinality({d.id : d \in new}) = k - 1
         /\ \A d \in new : d.publicId \in blobs \ snap[p].blobs

C3_Witness ==
  \E p \in Procs :
    /\ Finished(p, "create") /\ Solo(p) /\ FailedLast(p)
    /\ trace[p][Len(trace[p])].call = "upload"
    /\ Cardinality(Calls(p, "upload")) = 2
    /\ Cardinality(docs \ snap[p].docs) = 1

C5_DeleteAllReport ==
  \A p \in Procs :
    (Finished(p, "deleteAll") /\ Solo(p) /\ AuthPass(rq[p].hdr)
       /\ Calls(p, "find") = CallsOk(p, "find")
       /\ Calls(p, "deleteMany") = CallsOk(p, "deleteMany")) =>
      LET n == Cardinality(snap[p].docs)
          F == ArgsFailed(p, "destroy")
          b == resp[p].body
      IN /\ resp[p].status = 200
         /\ Cardinality(Calls(p, "destroy")) = n
         /\ ArgsOk(p, "destroy") \cup F = {d.publicId : d \in snap[p].docs}
         /\ b.attempted = n
         /\ b.successful = n - Cardinality(F)
         /\ b.failed = Cardinality(F)
         /\ Len(b.errors) = Cardinality(F)
         /\ {b.errors[i] : i \in 1..Len(b.errors)} = F
         /\ docs = {}
         /\ b.deletedCount = n

C5_Witness ==
  \E p \in Procs :
    /\ Finished(p, "deleteAll") /\ Solo(p) /\ resp[p].status = 200
    /\ Cardinality(snap[p].docs) = 2
    /\ Cardinality(ArgsFailed(p, "destroy")) = 1
    /\ Cardinality(ArgsOk(p, "destroy")) = 1


\* some successful call `first` of the request comes before a successful
\* call `then` of it.
Before(p, first, arg, then) ==
  \E i \in CallsOk(p, first), j \in CallsOk(p, then) :
    i < j /\ trace[p][i].arg = arg

C7_DeleteByOwnerFrame ==
  [][\A p \in Procs :
       (pc[p] = "do_deleteMany" /\ pc'[p] = "done") =>
         LET hit == {d \in docs : d.studentId = rq[p].sid}
         IN /\ blobs' = blobs
            /\ nextHandle' = nextHandle
            /\ (resp'[p].status = 200) =>
                 /\ docs' = docs \ hit
                 /\ resp'[p].body.deletedCertificates = Cardinality(hit)
            /\ (resp'[p].status # 200) => docs' = docs]_vars

C7_Witness ==
  \E p \in Procs :
    /\ Finished(p, "deleteByOwner") /\ Solo(p) /\ resp[p].status = 200
    /\ resp[p].body.deletedCertificates >= 1
    /\ docs # {}
    /\ \E d \in Removed(p) : d.publicId \in blobs

\* C8 as claimed: a replace run alone that answers 404 or 500 leaves both
\* stores exactly as it found them.
C8_FailedReplaceChangesNothing ==
  \A p \in Procs :
    (Finished(p, "replace") /\ Solo(p) /\ resp[p].status \in {404, 500}) =>
      (docs = snap[p].docs /\ blobs = snap[p].blobs)

\* C8 as amended: a replace run alone that answers 404 or 500 leaves the
\* metadata store as it found it; the artifact store is as it found it when
\* the request failed before or at the deletion of the old blob, has lost
\* the old blob when the upload failed, and has lost the old blob and holds
\* the new one when the metadata write failed.
C8_FailedReplaceEffects ==
  \A p \in Procs :
    (Finished(p, "replace") /\ Solo(p) /\ resp[p].status \in {404, 500}) =>
      LET gone == ArgsOk(p, "destroy")
          added == ArgsOk(p, "upload")
      IN /\ docs = snap[p].docs
         /\ blobs = (snap[p].blobs \ gone) \cup added
         /\ (gone = {}) => (added = {})
         /\ (CallsOk(p, "upload") # {}) => (Calls(p, "save") # {})

C8_Witness ==
  \E p \in Procs :
    /\ Finished(p, "replace") /\ Solo(p) /\ resp[p].status = 500
    /\ \E d \in snap[p].docs :
         d.id = rq[p].id /\ d.publicId \in snap[p].blobs \ blobs /\ d \in docs

\* C9: a request to create, replace, deleteOne, deleteAll, deleteByOwner,
\* stats, the two trends or cloudinary-test whose Authorization header is
\* absent or carries no valid token is answered 401 at once, with no store
\* call and no change of either store, and is never served; a list, search
\* or download is not answered 401.
Gated == {"create", "replace", "deleteOne", "deleteAll", "deleteByOwner",
          "stats", "daily", "monthly", "cloudinaryTest"}

NoValidToken(h) == ~(Len(h) >= 2 /\ h[2] = "good")

C9_GateBeforeStores ==
  [][\A p \in Procs :
       /\ (pc[p] \in {"idle", "done"} /\ rq'[p].op \in Gated
             /\ NoValidToken(rq'[p].hdr)
             /\ (pc'[p] # pc[p] \/ rq'[p] # rq[p] \/ resp'[p] # resp[p])) =>
            /\ pc'[p] = "done"
            /\ resp'[p].status = 401
            /\ trace'[p] = <<>>
            /\ stores' = stores
       /\ (pc[p] # "done" /\ pc'[p] = "done"
             /\ rq'[p].op \in {"list", "search", "download"}) =>
            resp'[p].status # 401]_vars

C9_Witness ==
  \E p \in Procs :
    /\ Finished(p, "deleteOne") /\ rq[p].hdr = <<>> /\ resp[p].status = 401
    /\ HasId(docs, rq[p].id)


\* C10: over a collection of T records that does not change, a list with
\* page p >= 1 and page size L >= 1 answers totalPages = ceil(T / L),
\* hasNextPage iff p < totalPages and hasPreviousPage iff p > 1; and the data
\* of pages 1..totalPages of one page size, put end to end, hold every
\* record exactly once, newest first, also when records share a createdAt.
C10_Pagination ==
  LET T == Cardinality(docs)
      pg == scan.asked.page
      lm == scan.asked.limit
      b == scan.last.body
  IN /\ (pg.kind = "int" /\ lm.kind = "int" /\ pg.val >= 1 /\ lm.val >= 1) =>
          /\ scan.last.status = 200
          /\ b.totalPages * lm.val >= T
          /\ (b.totalPages - 1) * lm.val < T
          /\ b.hasNextPage <=> (pg.val < b.totalPages)
          /\ b.hasPreviousPage <=> (pg.val > 1)
     /\ scan.finished =>
          /\ scan.next - 1 = (IF T = 0 THEN 1 ELSE b.totalPages)
          /\ Len(scan.acc) = T
          /\ {scan.acc[i] : i \in 1..Len(scan.acc)} = docs
          /\ \A i, j \in 1..Len(scan.acc) :
               (i < j) => (scan.acc[i].createdAt >= scan.acc[j].createdAt)

\* the elements of an array.
Range(a) == {a[i] : i \in 1..Len(a)}

\* the steps that take a record out of the collection or rewrite it.
Touches(p, d) ==
  /\ pc'[p] # pc[p]
  /\ \/ pc[p] = "d_delete" /\ rq[p].id = d.id
     \/ pc[p] = "r_save" /\ rq[p].id = d.id
     \/ pc[p] = "da_deleteMany"
     \/ pc[p] = "do_deleteMany" /\ rq[p].sid = d.studentId

\* C11 (round trip): the record a create inserts carries the ownerId given to
\* the create and the public id and url the artifact store returned for its
\* file, and that blob exists; a create that answers 200 answers one record
\* per file, with the ids it inserted; a record leaves the collection or
\* changes only in a step of a replace of its id or of a delete; a search
\* that answers 200 answers exactly the records of the owner asked for; a
\* list that answers 200 answers stored records only, and all of them on its
\* default page; and a search without an owner is answered 400 with no
\* store call.
C11_RoundTrip ==
  [][\A p \in Procs :
       /\ (pc[p] = "c_create" /\ Len(trace'[p]) > Len(trace[p])
             /\ trace'[p][Len(trace'[p])].ok) =>
            \E d \in docs' \ docs :
              /\ d.id = trace'[p][Len(trace'[p])].arg
              /\ d.studentId = rq[p].sid
              /\ d.publicId = trace[p][Len(trace[p])].arg
              /\ trace[p][Len(trace[p])].call = "upload"
              /\ d.certificateUrl = SecureUrl(d.publicId)
              /\ d.publicId \in blobs'
       /\ (pc[p] = "c_create" /\ pc'[p] = "done" /\ resp'[p].status = 200) =>
            LET b == resp'[p].body
            IN /\ Len(b) = rq[p].n
               /\ {b[k].id : k \in 1..Len(b)} = (ArgsOk(p, "create"))'
               /\ \A k \in 1..Len(b) : b[k].studentId = rq[p].sid
               /\ b[Len(b)] \in docs'
       /\ \A d \in docs : (d \notin docs') => \E q \in Procs : Touches(q, d)
       /\ (pc[p] = "s_find" /\ pc'[p] = "done" /\ resp'[p].status = 200) =>
            LET b == resp'[p].body
                mine == {d \in docs : d.studentId = rq[p].sid}
            IN Range(b) = mine /\ Len(b) = Cardinality(mine)
       /\ (pc[p] = "l_find" /\ pc'[p] = "done" /\ resp'[p].status = 200) =>
            LET b == resp'[p].body.data
            IN /\ Range(b) \subseteq docs
               /\ (rq[p].page = Absent /\ rq[p].limit = Absent
                     /\ Cardinality(docs) <= DefaultLimit) =>
                    (Range(b) = docs /\ Len(b) = Cardinality(docs))
       /\ (rq'[p].op = "search" /\ rq'[p].sid = NoSid) =>
            (pc'[p] = "done" /\ resp'[p].status = 400 /\ trace'[p] = <<>>)]_vars

C11_Witness ==
  \E p \in Procs :
    /\ Finished(p, "search") /\ resp[p].status = 200
    /\ Cardinality(docs) = 2
    /\ Len(resp[p].body) = 1
    /\ resp[p].body[1].studentId = rq[p].sid
    /\ resp[p].body[1].publicId \in blobs

RECURSIVE SumCounts(_)
SumCounts(b) == IF b = <<>> THEN 0 ELSE b[1].count + SumCounts(Tail(b))

\* C12: the counts of the buckets of a daily (monthly) trend add up to the
\* number of records created at or after the start of its window, every
\* bucket has a count above zero, the daily buckets come in strictly
\* ascending date order, and the monthly buckets come in strictly ascending
\* (year, month) order, each labelled month-year and counting the records of
\* the window created in that month of that year.
C12_TrendBuckets ==
  LET b == scan.body
  IN /\ (scan.op = "daily") =>
          /\ SumCounts(b)
               = Cardinality({d \in docs : d.createdAt >= SevenDaysAgo(scan.now)})
          /\ \A k \in 1..Len(b) : b[k].count > 0
          /\ \A k \in 1..(Len(b) - 1) : b[k].date < b[k + 1].date
     /\ (scan.op = "monthly") =>
          /\ SumCounts(b)
               = Cardinality({d \in docs : d.createdAt >= LastYear(scan.now)})
          /\ \A k \in 1..Len(b) :
               /\ b[k].count > 0
               /\ b[k].label[1] \in 1..MonthsPerYear
               /\ b[k].count =
                    Cardinality({d \in docs :
                      /\ d.createdAt >= LastYear(scan.now)
                      /\ MonthOf(d.createdAt) = b[k].label[1]
                      /\ YearOf(d.createdAt) = b[k].label[2]})
          /\ \A k \in 1..(Len(b) - 1) :
               \/ b[k].label[2] < b[k + 1].label[2]
               \/ /\ b[k].label[2] = b[k + 1].label[2]
                  /\ b[k].label[1] < b[k + 1].label[1]

C12_Witness ==
  /\ scan.op = "monthly"
  /\ Len(scan.body) = 1
  /\ Cardinality(docs) = 2
  /\ scan.body[1].count = 1
  /\ scan.body[1].label[2] = 1

\* C13: a daily trend counts every record created on one of the 7 calendar
\* days that end with today, each day taken whole, whatever the time of day
\* of the call.
C13_WholeDays ==
  (scan.op = "daily") =>
    SumCounts(scan.body)
      = Cardinality({d \in docs :
          DayNo(d.createdAt) \in (DayNo(scan.now) - DailyBack)..DayNo(scan.now)})

\* C14: a deleteOne parked at its metadata delete for a record with a public
\* id has just had that blob's deletion resolve, and every metadata delete a
\* deleteOne has issued comes right after a resolved deletion of a blob by
\* the same request; a deleteOne whose blob deletion failed has issued no
\* metadata delete.
C14_BlobDeleteFirst ==
  \A p \in Procs :
    (rq[p].op = "deleteOne") =>
      /\ (pc[p] = "d_delete" /\ Truthy(lv[p].cert.publicId)) =>
           /\ Len(trace[p]) > 0
           /\ trace[p][Len(trace[p])].call = "destroy"
           /\ trace[p][Len(trace[p])].ok
           /\ trace[p][Len(trace[p])].arg = lv[p].cert.publicId
      /\ \A j \in Calls(p, "deleteOne") :
           j > 1 /\ trace[p][j - 1].call = "destroy" /\ trace[p][j - 1].ok
      /\ (Calls(p, "destroy") # CallsOk(p, "destroy")) => Calls(p, "deleteOne") = {}

C14_Witness ==
  \E p \in Procs :
    /\ Finished(p, "deleteOne") /\ overlap[p] /\ resp[p].status = 200
    /\ CallsOk(p, "destroy") # {}
    /\ CallsOk(p, "deleteOne") # {}

\* two replaces with new files of the same id, both over and both answered
\* 200, that deleted the same old blob.
SameVersionReplaces(p, q) ==
  /\ p # q
  /\ Finished(p, "replace") /\ Finished(q, "replace")
  /\ rq[p].id = rq[q].id /\ rq[p].file /\ rq[q].file
  /\ resp[p].status = 200 /\ resp[q].status = 200
  /\ ArgsOk(p, "destroy") # {}
  /\ ArgsOk(p, "destroy") = ArgsOk(q, "destroy")

\* C15: nothing keeps two replaces of one id apart: when both have deleted
\* the same old blob (the blob deletion was issued twice for one handle) and
\* both answered 200, two blobs were uploaded, the record names exactly one
\* of them, and the other stays in the artifact store with no record naming
\* it.
C15_LostUpdate ==
  \A p, q \in Procs :
    SameVersionReplaces(p, q) =>
      LET up == ArgsOk(p, "upload") \cup ArgsOk(q, "upload")
          d == FindById(rq[p].id)
      IN /\ Cardinality(up) = 2
         /\ d # NoCert
         /\ d.publicId \in up
         /\ d.publicId \in blobs
         /\ (up \ {d.publicId}) \subseteq blobs
         /\ \A e \in docs : e.publicId \notin (up \ {d.publicId})

C15_Witness ==
  \E p, q \in Procs :
    /\ SameVersionReplaces(p, q)
    /\ Cardinality(Calls(p, "destroy") \cup Calls(q, "destroy")) = 1
    /\ \E h \in ArgsOk(p, "upload") \cup ArgsOk(q, "upload") :
         h \in blobs /\ \A e \in docs : e.publicId # h

AllCallsOk(p) == \A i \in 1..Len(trace[p]) : trace[p][i].ok

\* C16: a deleteOne and a replace with a new file of the same id, both over
\* with no store call failed and the deleteOne answered 200: no record of
\* that id is left, and neither the blobs they deleted nor the blob the
\* replace uploaded is left.
C16_DeleteBesideReplace ==
  \A p, q \in Procs :
    (/\ Finished(p, "deleteOne") /\ Finished(q, "replace")
     /\ rq[p].id = rq[q].id /\ rq[q].file
     /\ resp[p].status = 200
     /\ AllCallsOk(p) /\ AllCallsOk(q)) =>
      /\ ~HasId(docs, rq[p].id)
      /\ blobs \cap (ArgsOk(p, "destroy") \cup ArgsOk(q, "destroy")
                       \cup ArgsOk(q, "upload")) = {}

\* C19: a replace run alone that answers 200: the record keeps its id and
\* createdAt; with a new file the old blob is gone, the record names the
\* uploaded blob by public id and url, that blob exists and no other blob
\* changed; without one the record keeps its blob, and no blob deletion or
\* upload was issued; the studentId is the one given when one was given, the
\* old one otherwise; every other record is as it was; and save() was
\* called once.
C19_ReplaceFrame ==
  \A p \in Procs :
    (Finished(p, "replace") /\ Solo(p) /\ resp[p].status = 200) =>
      \E old \in snap[p].docs :
        LET new == FindById(rq[p].id)
        IN /\ old.id = rq[p].id
           /\ new.id = old.id
           /\ new.createdAt = old.createdAt
           /\ IF rq[p].file
              THEN /\ old.publicId \notin blobs
                   /\ ArgsOk(p, "upload") = {new.publicId}
                   /\ new.certificateUrl = SecureUrl(new.publicId)
                   /\ blobs = (snap[p].blobs \ {old.publicId}) \cup {new.publicId}
              ELSE /\ new.publicId = old.publicId
                   /\ new.certificateUrl = old.certificateUrl
                   /\ blobs = snap[p].blobs
                   /\ Calls(p, "destroy") = {} /\ Calls(p, "upload") = {}
           /\ new.studentId = (IF rq[p].sid # NoSid THEN rq[p].sid ELSE old.studentId)
           /\ docs \ {new} = snap[p].docs \ {old}
           /\ Cardinality(Calls(p, "save")) = 1

C19_Witness ==
  \E p \in Procs :
    /\ Finished(p, "replace") /\ Solo(p) /\ resp[p].status = 200
    /\ rq[p].file /\ rq[p].sid = "s2"
    /\ Cardinality(docs) = 2
    /\ \E d \in docs : d.id = rq[p].id /\ d.studentId = "s2" /\ d.publicId = 3
    /\ \E old \in snap[p].docs : old.id = rq[p].id /\ old.studentId = "s1"

\* C17 as claimed: a deleteAll that answers 200 has tried to delete the blob
\* of every record its bulk delete removed, deletedCount = attempted, also
\* when creates run beside it.
C17_DeletedEqualsAttempted ==
  \A p \in Procs :
    (Finished(p, "deleteAll") /\ resp[p].status = 200) =>
      resp[p].body.deletedCount = resp[p].body.attempted

\* C17 as amended: a deleteAll that answers 200 reports as attempted the
\* number of blob deletions it issued, one per record its enumeration found,
\* split into successful and failed; when it ran alone, the records it
\* removed are the ones it enumerated, the blob deletion of each was
\* attempted, and deletedCount = attempted.
C17_AttemptedIsEnumerated ==
  \A p \in Procs :
    (Finished(p, "deleteAll") /\ resp[p].status = 200) =>
      LET b == resp[p].body
      IN /\ b.attempted = Cardinality(Calls(p, "destroy"))
         /\ b.attempted = b.successful + b.failed
         /\ Solo(p) =>
              /\ b.deletedCount = b.attempted
              /\ Removed(p) = snap[p].docs
              /\ {d.publicId : d \in Removed(p)}
                   = ArgsOk(p, "destroy") \cup ArgsFailed(p, "destroy")

C17_Witness ==
  \E p \in Procs :
    /\ Finished(p, "deleteAll") /\ resp[p].status = 200 /\ overlap[p]
    /\ resp[p].body.attempted = 1
    /\ resp[p].body.deletedCount = 2
    /\ blobs # {}

\* C18: after a create run alone, however it ended, the blobs it added are
\* as many as the records it added, and each is named by exactly one of
\* those records.
C18_NoOrphanBlob ==
  \A p \in Procs :
    (Finished(p, "create") /\ Solo(p)) =>
      LET newBlobs == blobs \ snap[p].blobs
          newDocs == docs \ snap[p].docs
      IN /\ Cardinality(newBlobs) = Cardinality(newDocs)
         /\ \A h \in newBlobs :
              Cardinality({d \in newDocs : d.publicId = h}) = 1

\* C20: whatever the page and limit parameters, the list is served, with a
\* page and a page size that are positive: 1 and 10 when the parameter is
\* absent or not a number, the value given when it is a positive integer;
\* and the skip of the query is not negative.
C20_PositivePaging ==
  (scan.L = 0 /\ scan.last # NoResp) =>
    LET pg == scan.asked.page
        lm == scan.asked.limit
    IN /\ scan.last.status = 200
       /\ scan.last.body.currentPage >= 1
       /\ scan.last.body.itemsPerPage >= 1
       /\ (pg.kind # "int") => scan.last.body.currentPage = DefaultPage
       /\ (lm.kind # "int") => scan.last.body.itemsPerPage = DefaultLimit
       /\ (pg.kind = "int" /\ pg.val >= 1) => scan.last.body.currentPage = pg.val
       /\ (lm.kind = "int" /\ lm.val >= 1) => scan.last.body.itemsPerPage = lm.val
       /\ Skip(scan.last.body.currentPage, scan.last.body.itemsPerPage) >= 0

====
